---- MODULE Spec2Model ----
(***************************************************************************)
(* A model of Inception_Net.ipynb: the Inception block, the auxiliary      *)
(* classifier and the Inception network (GoogLeNet) built on torch.nn.     *)
(*                                                                         *)
(* A tensor is modelled by what the notebook's shape checks and data flow  *)
(* depend on:                                                              *)
(*   shape : <<N, C, H, W>> for a feature map, <<N, F>> once flattened;    *)
(*   segs  : the provenance of the channel axis, a sequence of             *)
(*           <<layer, count>> runs (channel 1 is the first run's first);   *)
(*   trace : the layers the value went through, in order (a free term:     *)
(*           two tensors are the same value iff their traces agree);       *)
(*   buf   : the storage the tensor lives in: <<"own", n>> for the result  *)
(*           of the n-th layer of its trace, <<"clone", n>> for a clone;   *)
(*   err   : "" or the kind of RuntimeError the producing call raised.     *)
(***************************************************************************)
EXTENDS Integers, Sequences, FiniteSets, TLC

VARIABLES blk, aux, net

vars == <<blk, aux, net>>

(***************************************************************************)
(* Bounds of the model.                                                    *)
(***************************************************************************)
MaxCh == 2
MaxSide == 3
MaxBatch == 2
MaxClasses == 2
MaxAuxSide == 50
SideSlack == 1
MaxSweepSide == 256
SweepBelow == 32
SweepAbove == 16
MaxLoss == 1

\* the outcomes of one random draw of a dropout mask in training mode
DropoutMasks == {1, 2}

(***************************************************************************)
(* Tensors.                                                                *)
(***************************************************************************)
Tensor(shape, segs, trace) ==
    [ok |-> TRUE, err |-> "", shape |-> shape, segs |-> segs, trace |-> trace,
     buf |-> <<"own", Len(trace)>>]

Raised(kind) ==
    [ok |-> FALSE, err |-> kind, shape |-> <<>>, segs |-> <<>>, trace |-> <<>>,
     buf |-> <<"none", 0>>]

NoTensor == Raised("unset")

Op(mod, name, arg, mask) == [mod |-> mod, op |-> name, arg |-> arg, mask |-> mask]

\* torch.zeros((N, C, H, W)): a fresh input
Zeros(n, c, h, w) == Tensor(<<n, c, h, w>>, <<<<"input", c>>>>, <<>>)

RECURSIVE Product(_)
Product(s) == IF s = <<>> THEN 1 ELSE Head(s) * Product(Tail(s))

RECURSIVE SegSum(_)
SegSum(segs) == IF segs = <<>> THEN 0 ELSE Head(segs)[2] + SegSum(Tail(segs))

\* the layer that produced channel c (1-based) of a channel axis made of segs
RECURSIVE ChannelOwner(_, _)
ChannelOwner(segs, c) ==
    IF segs = <<>> THEN "none"
    ELSE IF c <= Head(segs)[2] THEN Head(segs)[1]
    ELSE ChannelOwner(Tail(segs), c - Head(segs)[2])

(***************************************************************************)
(* torch.nn layers, as the notebook uses them.                             *)
(***************************************************************************)
\* output side of a sliding window: floor((s + 2p - k) / stride) + 1
WindowOut(s, k, stride, p) == ((s + 2 * p - k) \div stride) + 1

Conv2d(mod, name, in_ch, out_ch, k, stride, p, x) ==
    IF ~x.ok THEN x
    ELSE IF Len(x.shape) # 4 THEN Raised("rank")
    ELSE IF x.shape[2] # in_ch THEN Raised("channels")
    ELSE IF x.shape[3] + 2 * p < k \/ x.shape[4] + 2 * p < k THEN Raised("size")
    ELSE Tensor(<<x.shape[1], out_ch,
                  WindowOut(x.shape[3], k, stride, p),
                  WindowOut(x.shape[4], k, stride, p)>>,
                <<<<name, out_ch>>>>,
                Append(x.trace, Op(mod, name, 0, 0)))

Pool2d(mod, name, k, stride, p, x) ==
    IF ~x.ok THEN x
    ELSE IF Len(x.shape) # 4 THEN Raised("rank")
    ELSE IF x.shape[3] + 2 * p < k \/ x.shape[4] + 2 * p < k THEN Raised("size")
    ELSE Tensor(<<x.shape[1], x.shape[2],
                  WindowOut(x.shape[3], k, stride, p),
                  WindowOut(x.shape[4], k, stride, p)>>,
                x.segs,
                Append(x.trace, Op(mod, name, 0, 0)))

MaxPool2d(mod, name, k, stride, p, x) == Pool2d(mod, name, k, stride, p, x)

AvgPool2d(mod, name, k, stride, x) == Pool2d(mod, name, k, stride, 0, x)

\* F.relu: elementwise, out of place
Relu(x) ==
    IF ~x.ok THEN x
    ELSE Tensor(x.shape, x.segs, Append(x.trace, Op("F", "relu", 0, 0)))

\* x.reshape(x.shape[0], -1): a view of x's storage
Reshape(x) ==
    IF ~x.ok THEN x
    ELSE [x EXCEPT !.shape = <<x.shape[1], Product(Tail(x.shape))>>, !.segs = <<>>]

\* nn.Linear acts on the last axis, which must be in_f wide
Linear(mod, name, in_f, out_f, x) ==
    IF ~x.ok THEN x
    ELSE IF x.shape[Len(x.shape)] # in_f THEN Raised("matmul")
    ELSE Tensor(SubSeq(x.shape, 1, Len(x.shape) - 1) \o <<out_f>>,
                <<>>,
                Append(x.trace, Op(mod, name, 0, 0)))

\* nn.Dropout(p): a random mask in training mode, the identity in eval mode
Dropout(mod, name, p10, training, mask, x) ==
    IF ~x.ok THEN x
    ELSE IF training
         THEN Tensor(x.shape, x.segs, Append(x.trace, Op(mod, name, p10, mask)))
         ELSE x

\* torch.cat(ts, axis=1)
Cat(ts) ==
    IF \E i \in 1..Len(ts) : ~ts[i].ok
    THEN ts[CHOOSE i \in 1..Len(ts) :
                /\ ~ts[i].ok
                /\ \A j \in 1..(i - 1) : ts[j].ok]
    ELSE IF \E i \in 2..Len(ts) :
              \/ Len(ts[i].shape) # Len(ts[1].shape)
              \/ \E d \in (1..Len(ts[1].shape)) \ {2} : ts[i].shape[d] # ts[1].shape[d]
    THEN Raised("cat")
    ELSE LET RECURSIVE Segs(_)
             Segs(i) == IF i > Len(ts) THEN <<>> ELSE ts[i].segs \o Segs(i + 1)
             RECURSIVE Chans(_)
             Chans(i) == IF i > Len(ts) THEN 0 ELSE ts[i].shape[2] + Chans(i + 1)
         IN Tensor(<<ts[1].shape[1], Chans(1)>> \o SubSeq(ts[1].shape, 3, Len(ts[1].shape)),
                   Segs(1),
                   ts[1].trace)

\* x.clone(): the same value in storage of its own
Clone(x) == IF ~x.ok THEN x ELSE [x EXCEPT !.buf = <<"clone", Len(x.trace)>>]

(***************************************************************************)
(* Inception_Block(block_params), block_params =                           *)
(* (in_ch, out1, red2, out2, red3, out3, out4).                            *)
(***************************************************************************)
\* branch 1: 1x1 conv
Block_conv1(mod, p, x) == Conv2d(mod, "conv1", p[1], p[2], 1, 1, 0, x)

\* branch 2: reduce - 3x3 conv
Block_reduce2(mod, p, x) == Conv2d(mod, "reduce2", p[1], p[3], 1, 1, 0, x)

Block_conv2(mod, p, x) == Conv2d(mod, "conv2", p[3], p[4], 3, 1, 1, x)

\* the 5x5 conv built with the 3x3 conv's padding
Block_conv3_pad1(mod, p, x) == Conv2d(mod, "conv3", p[5], p[6], 5, 1, 1, x)

\* branch 3: reduce - 5x5 conv
Block_reduce3(mod, p, x) == Conv2d(mod, "reduce3", p[1], p[5], 1, 1, 0, x)

Block_conv3(mod, p, x) == Conv2d(mod, "conv3", p[5], p[6], 5, 1, 2, x)

\* branch 4: maxpool - 1x1 conv
Block_maxpool4(mod, p, x) == MaxPool2d(mod, "maxpool4", 3, 1, 1, x)

Block_conv4(mod, p, x) == Conv2d(mod, "conv4", p[1], p[7], 1, 1, 0, x)

\* the branch outputs with the 5x5 branch before the 3x3 branch
BranchOutputs_swapped(mod, p, x) ==
    LET conv1_out == Relu(Block_conv1(mod, p, x))
        conv2_out == Relu(Block_conv2(mod, p, Relu(Block_reduce2(mod, p, x))))
        conv3_out == Relu(Block_conv3(mod, p, Relu(Block_reduce3(mod, p, x))))
        conv4_out == Relu(Block_conv4(mod, p, Block_maxpool4(mod, p, x)))
    IN <<conv1_out, conv3_out, conv2_out, conv4_out>>

\* the tuple of branch outputs handed to torch.cat
BranchOutputs(mod, p, x) ==
    LET conv1_out == Relu(Block_conv1(mod, p, x))
        conv2_out == Relu(Block_conv2(mod, p, Relu(Block_reduce2(mod, p, x))))
        conv3_out == Relu(Block_conv3(mod, p, Relu(Block_reduce3(mod, p, x))))
        conv4_out == Relu(Block_conv4(mod, p, Block_maxpool4(mod, p, x)))
    IN <<conv1_out, conv2_out, conv3_out, conv4_out>>

\* Inception_Block.forward: the block's output is one value computed from x,
\* so its trace is x's followed by the block
InceptionForward(mod, p, x) ==
    LET output == Cat(BranchOutputs(mod, p, x))
    IN IF ~x.ok THEN x
       ELSE IF ~output.ok THEN output
       ELSE Tensor(output.shape, output.segs, Append(x.trace, Op(mod, "forward", 0, 0)))

\* out1 + out2 + out3 + out4
OutChannels(p) == p[2] + p[4] + p[6] + p[7]

(***************************************************************************)
(* Auxiliary_Classifier(in_ch, num_classes).                               *)
(***************************************************************************)
AuxPoolKernel == 5
AuxPoolStride == 3
AuxConvChannels == 128
AuxFlatWidth == 4 * 4 * 128
AuxHidden == 1024
AuxDropP10 == 7

\* the average pool built with stride 2
Aux_avgpool1_stride2(mod, x) == AvgPool2d(mod, "avgpool1", AuxPoolKernel, 2, x)

Aux_avgpool1(mod, x) == AvgPool2d(mod, "avgpool1", AuxPoolKernel, AuxPoolStride, x)

Aux_conv2(mod, in_ch, x) == Conv2d(mod, "conv2", in_ch, AuxConvChannels, 1, 1, 0, x)

Aux_fc3(mod, x) == Linear(mod, "fc3", AuxFlatWidth, AuxHidden, x)

Aux_dropout4(mod, training, mask, x) ==
    Dropout(mod, "dropout4", AuxDropP10, training, mask, x)

Aux_fc5(mod, num_classes, x) == Linear(mod, "fc5", AuxHidden, num_classes, x)

\* the feature map after the average pool and the 1x1 conv
AuxFeatures(mod, in_ch, x) == Relu(Aux_conv2(mod, in_ch, Aux_avgpool1(mod, x)))

\* what fc3 is given: x.reshape(x.shape[0], -1)
AuxFlat(mod, in_ch, x) == Reshape(AuxFeatures(mod, in_ch, x))

\* Auxiliary_Classifier.forward
AuxForward(mod, in_ch, num_classes, training, mask, x) ==
    LET x3 == Relu(Aux_fc3(mod, AuxFlat(mod, in_ch, x)))
        x4 == Aux_dropout4(mod, training, mask, x3)
    IN Aux_fc5(mod, num_classes, x4)

(***************************************************************************)
(* Inception_Net(num_classes): the layers __init__ builds.                 *)
(***************************************************************************)
\* the side of the documented input, (N, 3, 224, 224)
InputSide == 224
InputChannels == 3
MainDropP10 == 4
MainFeatures == 1024
Aux1Channels == 512
Aux2Channels == 528

\* Table 1 with inception4e given inception4d's input width
inception_params_typo ==
    [inception3a |-> <<192, 64, 96, 128, 16, 32, 32>>,
     inception3b |-> <<256, 128, 128, 192, 32, 96, 64>>,
     inception4a |-> <<480, 192, 96, 208, 16, 48, 64>>,
     inception4b |-> <<512, 160, 112, 224, 24, 64, 64>>,
     inception4c |-> <<512, 128, 128, 256, 24, 64, 64>>,
     inception4d |-> <<512, 112, 144, 288, 32, 64, 64>>,
     inception4e |-> <<512, 256, 160, 320, 32, 128, 128>>,
     inception5a |-> <<832, 256, 160, 320, 32, 128, 128>>,
     inception5b |-> <<832, 384, 192, 384, 48, 128, 128>>]

\* from Table 1 in the paper
inception_params ==
    [inception3a |-> <<192, 64, 96, 128, 16, 32, 32>>,
     inception3b |-> <<256, 128, 128, 192, 32, 96, 64>>,
     inception4a |-> <<480, 192, 96, 208, 16, 48, 64>>,
     inception4b |-> <<512, 160, 112, 224, 24, 64, 64>>,
     inception4c |-> <<512, 128, 128, 256, 24, 64, 64>>,
     inception4d |-> <<512, 112, 144, 288, 32, 64, 64>>,
     inception4e |-> <<528, 256, 160, 320, 32, 128, 128>>,
     inception5a |-> <<832, 256, 160, 320, 32, 128, 128>>,
     inception5b |-> <<832, 384, 192, 384, 48, 128, 128>>]

\* conv1 built without its padding
Net_conv1_unpadded(x) == Conv2d("net", "conv1", InputChannels, 64, 7, 2, 0, x)

Net_conv1(x) == Conv2d("net", "conv1", InputChannels, 64, 7, 2, 3, x)

Net_maxpool1(x) == MaxPool2d("net", "maxpool1", 3, 2, 1, x)

Net_reduce2(x) == Conv2d("net", "reduce2", 64, 64, 1, 1, 0, x)

Net_conv2(x) == Conv2d("net", "conv2", 64, 192, 3, 1, 1, x)

Net_maxpool2(x) == MaxPool2d("net", "maxpool2", 3, 2, 1, x)

inception3a(x) == InceptionForward("inception3a", inception_params.inception3a, x)

inception3b(x) == InceptionForward("inception3b", inception_params.inception3b, x)

\* maxpool3 built without its padding
Net_maxpool3_unpadded(x) == MaxPool2d("net", "maxpool3", 3, 2, 0, x)

Net_maxpool3(x) == MaxPool2d("net", "maxpool3", 3, 2, 1, x)

inception4a(x) == InceptionForward("inception4a", inception_params.inception4a, x)

inception4b(x) == InceptionForward("inception4b", inception_params.inception4b, x)

inception4c(x) == InceptionForward("inception4c", inception_params.inception4c, x)

inception4d(x) == InceptionForward("inception4d", inception_params.inception4d, x)

inception4e(x) == InceptionForward("inception4e", inception_params.inception4e, x)

Net_maxpool4(x) == MaxPool2d("net", "maxpool4", 3, 2, 1, x)

inception5a(x) == InceptionForward("inception5a", inception_params.inception5a, x)

inception5b(x) == InceptionForward("inception5b", inception_params.inception5b, x)

Net_avgpool5(x) == AvgPool2d("net", "avgpool5", 7, 1, x)

\* a dropout that ignores the module's mode, as F.dropout(x, 0.4) would
Net_dropout5_always(training, mask, x) ==
    Dropout("net", "dropout5", MainDropP10, TRUE, mask, x)

Net_dropout5(training, mask, x) == Dropout("net", "dropout5", MainDropP10, training, mask, x)

Net_linear5(num_classes, x) == Linear("net", "linear5", MainFeatures, num_classes, x)

aux_classifier1(num_classes, training, mask, x) ==
    AuxForward("aux_classifier1", Aux1Channels, num_classes, training, mask, x)

aux_classifier2(num_classes, training, mask, x) ==
    AuxForward("aux_classifier2", Aux2Channels, num_classes, training, mask, x)

(***************************************************************************)
(* Inception_Net.forward, statement by statement.  l holds the locals      *)
(* (x, aux0, aux1, scores0, scores1, scores2) and err, the error raised.   *)
(***************************************************************************)
FirstLine == 315
ReturnLine == 339

Locals(x) ==
    [x |-> x, aux0 |-> NoTensor, aux1 |-> NoTensor,
     scores0 |-> NoTensor, scores1 |-> NoTensor, scores2 |-> NoTensor, err |-> ""]

\* the statement `name = t`: a failed call raises and binds nothing
Bind(l, name, t) ==
    IF t.ok THEN [l EXCEPT ![name] = t] ELSE [l EXCEPT !.err = t.err]

Fwd315(l) == Bind(l, "x", Relu(Net_conv1(l.x)))

Fwd316(l) == Bind(l, "x", Net_maxpool1(l.x))

Fwd317(l) == Bind(l, "x", Relu(Net_conv2(Relu(Net_reduce2(l.x)))))

Fwd318(l) == Bind(l, "x", Net_maxpool2(l.x))

Fwd319(l) == Bind(l, "x", inception3a(l.x))

Fwd320(l) == Bind(l, "x", inception3b(l.x))

Fwd321(l) == Bind(l, "x", Net_maxpool3(l.x))

Fwd322(l) == Bind(l, "x", inception4a(l.x))

\* the tap taken without .clone()
Fwd323_alias(l) == Bind(l, "aux0", l.x)

\* for auxiliary branch connected to 4a
Fwd323(l) == Bind(l, "aux0", Clone(l.x))

Fwd324(l) == Bind(l, "x", inception4b(l.x))

Fwd325(l) == Bind(l, "x", inception4c(l.x))

Fwd326(l) == Bind(l, "x", inception4d(l.x))

\* for auxiliary branch connected to 4d
Fwd327(l) == Bind(l, "aux1", Clone(l.x))

Fwd328(l) == Bind(l, "x", inception4e(l.x))

Fwd329(l) == Bind(l, "x", Net_maxpool4(l.x))

Fwd330(l) == Bind(l, "x", inception5a(l.x))

Fwd331(l) == Bind(l, "x", inception5b(l.x))

Fwd332(l) == Bind(l, "x", Net_avgpool5(l.x))

Fwd333(l, training, mask) == Bind(l, "x", Net_dropout5(training, mask, Reshape(l.x)))

\* main branch scores
Fwd335(l, num_classes) == Bind(l, "scores2", Net_linear5(num_classes, l.x))

\* auxiliary classifiers
Fwd337(l, num_classes, training, mask) ==
    Bind(l, "scores0", aux_classifier1(num_classes, training, mask, l.aux0))

Fwd338(l, num_classes, training, mask) ==
    Bind(l, "scores1", aux_classifier2(num_classes, training, mask, l.aux1))

\* return (scores0, scores1, scores2)
Fwd339(l) == <<l.scores0, l.scores1, l.scores2>>

\* the lines that draw a dropout mask when the module is in training mode
DropoutLines == {333, 337, 338}

\* the statement at `line` (334 and 336 are comments)
Statement(line, l, num_classes, training, mask) ==
    CASE line = 315 -> Fwd315(l)
      [] line = 316 -> Fwd316(l)
      [] line = 317 -> Fwd317(l)
      [] line = 318 -> Fwd318(l)
      [] line = 319 -> Fwd319(l)
      [] line = 320 -> Fwd320(l)
      [] line = 321 -> Fwd321(l)
      [] line = 322 -> Fwd322(l)
      [] line = 323 -> Fwd323(l)
      [] line = 324 -> Fwd324(l)
      [] line = 325 -> Fwd325(l)
      [] line = 326 -> Fwd326(l)
      [] line = 327 -> Fwd327(l)
      [] line = 328 -> Fwd328(l)
      [] line = 329 -> Fwd329(l)
      [] line = 330 -> Fwd330(l)
      [] line = 331 -> Fwd331(l)
      [] line = 332 -> Fwd332(l)
      [] line = 333 -> Fwd333(l, training, mask)
      [] line = 335 -> Fwd335(l, num_classes)
      [] line = 337 -> Fwd337(l, num_classes, training, mask)
      [] line = 338 -> Fwd338(l, num_classes, training, mask)
      [] OTHER -> l

\* the line of the statement after `line`
NextLine(line) == IF line \in {333, 335} THEN line + 2 ELSE line + 1

\* the whole body of forward from `line` on, up to the return statement
RECURSIVE RunFrom(_, _, _, _, _)
RunFrom(line, l, num_classes, training, mask) ==
    IF l.err # "" \/ line >= ReturnLine THEN l
    ELSE RunFrom(NextLine(line), Statement(line, l, num_classes, training, mask),
                 num_classes, training, mask)

(***************************************************************************)
(* The notebook's cells as a state machine.                                *)
(*   blk : an Inception_Block built from a tuple and called on an input,   *)
(*         and a second block built to consume its output;                 *)
(*   aux : an Auxiliary_Classifier built and called on an input;           *)
(*   net : an Inception_Net built and called, forward running one          *)
(*         statement at a time, and the loss cell.                         *)
(***************************************************************************)
BlockParamSet == [1..7 -> 1..MaxCh]

NoCall == [training |-> FALSE, ok |-> FALSE, err |-> "none", ret |-> <<>>]

NoLoss == [done |-> FALSE, y |-> 0, aux_loss1 |-> NoCall, aux_loss2 |-> NoCall,
           main_loss |-> NoCall, total10 |-> 0]

BlkIdle ==
    [st |-> "off", params |-> <<1, 1, 1, 1, 1, 1, 1>>, x |-> NoTensor, out |-> NoTensor,
     next_in |-> 0, next_out |-> NoTensor]

AuxIdle ==
    [st |-> "off", in_ch |-> 0, num_classes |-> 0, training |-> FALSE,
     x |-> NoTensor, out |-> NoTensor]

NetIdle ==
    [st |-> "off", num_classes |-> 0, training |-> FALSE, input |-> NoTensor,
     line |-> 0, l |-> Locals(NoTensor), last |-> NoCall, loss |-> NoLoss]

\* ---- Inception_Block cells ----
BlkStart(p, x) == [BlkIdle EXCEPT !.st = "new", !.params = p, !.x = x]

\* Inception_Block.__init__: the tuple is unpacked into the layers, unchecked
BlockInit ==
    /\ blk.st = "new"
    /\ blk' = [blk EXCEPT !.st = "built"]
    /\ UNCHANGED <<aux, net>>

\* block(x)
BlockCall ==
    /\ blk.st = "built"
    /\ blk' = [blk EXCEPT !.st = "called",
                          !.out = InceptionForward("block", blk.params, blk.x)]
    /\ UNCHANGED <<aux, net>>

\* the tuple of a block built to take in_ch channels
NextParams(in_ch) == <<in_ch, 1, 1, 1, 1, 1, 1>>

\* a second Inception_Block is built to consume the first one's output
NextInit ==
    /\ blk.st = "called"
    /\ blk.out.ok
    /\ \E c \in 1..(4 * MaxCh) : blk' = [blk EXCEPT !.st = "chained", !.next_in = c]
    /\ UNCHANGED <<aux, net>>

NextCall ==
    /\ blk.st = "chained"
    /\ blk' = [blk EXCEPT !.st = "fed",
                          !.next_out = InceptionForward("next", NextParams(blk.next_in),
                                                        blk.out)]
    /\ UNCHANGED <<aux, net>>

\* ---- Auxiliary_Classifier cells ----
AuxStart(in_ch, k, x) ==
    [AuxIdle EXCEPT !.st = "new", !.in_ch = in_ch, !.num_classes = k, !.x = x]

\* Auxiliary_Classifier.__init__: an nn.Module starts in training mode
AuxInit ==
    /\ aux.st = "new"
    /\ aux' = [aux EXCEPT !.st = "built", !.training = TRUE]
    /\ UNCHANGED <<blk, net>>

\* nn.Module.eval()
AuxEval ==
    /\ aux.st = "built"
    /\ aux.training
    /\ aux' = [aux EXCEPT !.training = FALSE]
    /\ UNCHANGED <<blk, net>>

\* aux_classifier(x)
AuxCall ==
    /\ aux.st = "built"
    /\ \E mask \in (IF aux.training THEN DropoutMasks ELSE {0}) :
          aux' = [aux EXCEPT !.st = "called",
                             !.out = AuxForward("aux", aux.in_ch, aux.num_classes,
                                                aux.training, mask, aux.x)]
    /\ UNCHANGED <<blk, net>>

\* ---- Inception_Net cells ----
NetStart(k, x) == [NetIdle EXCEPT !.st = "new", !.num_classes = k, !.input = x]

\* Inception_Net.__init__: an nn.Module starts in training mode
NetInit ==
    /\ net.st = "new"
    /\ net' = [net EXCEPT !.st = "idle", !.training = TRUE]
    /\ UNCHANGED <<blk, aux>>

\* nn.Module.train(mode) / nn.Module.eval()
SetTraining ==
    /\ net.st = "idle"
    /\ net' = [net EXCEPT !.training = ~@]
    /\ UNCHANGED <<blk, aux>>

\* model(x): forward is entered with x bound to the input
Call ==
    /\ net.st = "idle"
    /\ net' = [net EXCEPT !.st = "running", !.line = FirstLine, !.l = Locals(net.input)]
    /\ UNCHANGED <<blk, aux>>

CallRaised(training, err) == [training |-> training, ok |-> FALSE, err |-> err, ret |-> <<>>]

CallReturned(training, ret) == [training |-> training, ok |-> TRUE, err |-> "", ret |-> ret]

\* one statement of forward; an error ends the call
Step ==
    /\ net.st = "running"
    /\ net.line < ReturnLine
    /\ \E mask \in (IF net.training /\ net.line \in DropoutLines THEN DropoutMasks ELSE {0}) :
          LET l2 == Statement(net.line, net.l, net.num_classes, net.training, mask)
          IN net' = IF l2.err # ""
                    THEN [net EXCEPT !.st = "idle", !.l = Locals(NoTensor),
                                     !.last = CallRaised(net.training, l2.err)]
                    ELSE [net EXCEPT !.l = l2, !.line = NextLine(net.line)]
    /\ UNCHANGED <<blk, aux>>

\* return (scores0, scores1, scores2)
Return ==
    /\ net.st = "running"
    /\ net.line = ReturnLine
    /\ net' = [net EXCEPT !.st = "idle", !.line = 0, !.l = Locals(NoTensor),
                          !.last = CallReturned(net.training, Fwd339(net.l))]
    /\ UNCHANGED <<blk, aux>>

\* model(x) as one step: the whole of forward, every dropout drawing `mask`
Evaluate ==
    /\ net.st = "idle"
    /\ \E mask \in (IF net.training THEN DropoutMasks ELSE {0}) :
          LET l2 == RunFrom(FirstLine, Locals(net.input), net.num_classes,
                            net.training, mask)
          IN net' = [net EXCEPT !.st = "evaluated",
                                !.last = IF l2.err # ""
                                         THEN CallRaised(net.training, l2.err)
                                         ELSE CallReturned(net.training, Fwd339(l2))]
    /\ UNCHANGED <<blk, aux>>

\* F.cross_entropy(scores, y): a loss determined by the scores and the labels;
\* its value, in the units of the model, is whatever the weights make it
CrossEntropy(scores, y, value) == [scores |-> scores, y |-> y, value |-> value]

\* ten times the weight of each auxiliary loss, 0.3
AuxWeight10 == 3

\* the total with the second auxiliary loss left unweighted
TotalLoss10_unweighted(main_loss, aux_loss1, aux_loss2) ==
    10 * main_loss.value + AuxWeight10 * aux_loss1.value + 10 * aux_loss2.value

\* total_loss = main_loss + (0.3 * aux_loss1) + (0.3 * aux_loss2), times ten
TotalLoss10(main_loss, aux_loss1, aux_loss2) ==
    10 * main_loss.value + AuxWeight10 * aux_loss1.value + AuxWeight10 * aux_loss2.value

\* the loss cell, once model(x) has reached its return statement
LossOf(ret, y, v0, v1, v2) ==
    LET scores0 == ret[1]
        scores1 == ret[2]
        scores2 == ret[3]
        aux_loss1 == CrossEntropy(scores0, y, v0)
        aux_loss2 == CrossEntropy(scores1, y, v1)
        main_loss == CrossEntropy(scores2, y, v2)
    IN [done |-> TRUE, y |-> y, aux_loss1 |-> aux_loss1, aux_loss2 |-> aux_loss2,
        main_loss |-> main_loss,
        total10 |-> TotalLoss10(main_loss, aux_loss1, aux_loss2)]

LossCell ==
    /\ net.st = "running"
    /\ net.line = ReturnLine
    /\ \E y \in 0..(net.num_classes - 1), v0 \in 0..MaxLoss, v1 \in 0..MaxLoss,
          v2 \in 0..MaxLoss :
          net' = [net EXCEPT !.st = "finished", !.line = 0, !.l = Locals(NoTensor),
                             !.last = CallReturned(net.training, Fwd339(net.l)),
                             !.loss = LossOf(Fwd339(net.l), y, v0, v1, v2)]
    /\ UNCHANGED <<blk, aux>>

(***************************************************************************)
(* Specifications: one per group of cells.                                 *)
(***************************************************************************)
\* an Inception_Block on inputs of every small shape
InitBlock ==
    /\ \E p \in BlockParamSet, n \in 1..MaxBatch, c \in 1..MaxCh,
          h \in 1..MaxSide, w \in 1..MaxSide :
          blk = BlkStart(p, Zeros(n, c, h, w))
    /\ aux = AuxIdle
    /\ net = NetIdle

NextBlock == BlockInit \/ BlockCall

SpecBlock == InitBlock /\ [][NextBlock]_vars

\* two Inception_Blocks in a row, the first on an input it accepts
InitChain ==
    /\ \E p \in BlockParamSet, h \in 1..MaxSide, w \in 1..MaxSide :
          blk = BlkStart(p, Zeros(1, p[1], h, w))
    /\ aux = AuxIdle
    /\ net = NetIdle

NextChain == BlockInit \/ BlockCall \/ NextInit \/ NextCall

SpecChain == InitChain /\ [][NextChain]_vars

\* an Auxiliary_Classifier for 512 or 528 channels on feature maps of every size
InitAux ==
    /\ blk = BlkIdle
    /\ \E in_ch \in {Aux1Channels, Aux2Channels}, c \in {Aux1Channels, Aux2Channels},
          k \in 1..MaxClasses, n \in 1..MaxBatch,
          h \in 1..MaxAuxSide, w \in 1..MaxAuxSide :
          aux = AuxStart(in_ch, k, Zeros(n, c, h, w))
    /\ net = NetIdle

NextAux == AuxInit \/ AuxEval \/ AuxCall

SpecAux == InitAux /\ [][NextAux]_vars

\* the network on images of the documented size and a little larger
InitNet ==
    /\ blk = BlkIdle
    /\ aux = AuxIdle
    /\ \E k \in 1..MaxClasses, n \in 1..MaxBatch,
          h \in InputSide..(InputSide + SideSlack),
          w \in InputSide..(InputSide + SideSlack) :
          net = NetStart(k, Zeros(n, InputChannels, h, w))

NextNet == NetInit \/ SetTraining \/ Call \/ Step \/ Return

Spec == InitNet /\ [][NextNet]_vars

\* the network and the loss cell
NextLoss == NetInit \/ Call \/ Step \/ LossCell

SpecLoss == InitNet /\ [][NextLoss]_vars

\* the image sizes of the sweep: every square size, every size with one side
\* as documented, and every size in a window around the documented one
SweepWindow == (InputSide - SweepBelow)..(InputSide + SweepAbove)

SweepSizes ==
    {s \in (1..MaxSweepSide) \X (1..MaxSweepSide) :
        \/ s[1] = s[2]
        \/ s[1] = InputSide
        \/ s[2] = InputSide
        \/ s[1] \in SweepWindow /\ s[2] \in SweepWindow}

\* the network on images of the sizes of the sweep
InitSweep ==
    /\ blk = BlkIdle
    /\ aux = AuxIdle
    /\ \E s \in SweepSizes :
          net = NetStart(MaxClasses, Zeros(MaxBatch, InputChannels, s[1], s[2]))

NextSweep == NetInit \/ Evaluate

SpecSweep == InitSweep /\ [][NextSweep]_vars

(***************************************************************************)
(* Properties.                                                             *)
(***************************************************************************)
Documented == net.input.shape[3] = InputSide /\ net.input.shape[4] = InputSide

BatchSize == net.input.shape[1]

\* C1: on an input of shape (N, 3, 224, 224) forward raises nothing and returns
\* three tensors of shape (N, num_classes); on the way, before each statement,
\* x has the channel count and side the statement's layer expects: the stem takes
\* 224 to 112, 56 and 28 with 192 channels, blocks 3a-3b run at 28x28, 4a-4e at
\* 14x14, 5a-5b at 7x7, and the 7x7 average pool leaves 1x1 with 1024 channels.
C1_ForwardShapes ==
    LET expected ==
            [line \in FirstLine..ReturnLine |->
                CASE line = 315 -> <<3, 224>>
                  [] line = 316 -> <<64, 112>>
                  [] line = 317 -> <<64, 56>>
                  [] line = 318 -> <<192, 56>>
                  [] line = 319 -> <<192, 28>>
                  [] line = 320 -> <<256, 28>>
                  [] line = 321 -> <<480, 28>>
                  [] line = 322 -> <<480, 14>>
                  [] line \in 323..326 -> <<512, 14>>
                  [] line \in 327..328 -> <<528, 14>>
                  [] line = 329 -> <<832, 14>>
                  [] line \in 330..331 -> <<832, 7>>
                  [] line = 332 -> <<1024, 7>>
                  [] line = 333 -> <<1024, 1>>
                  [] OTHER -> <<0, 0>>]
    IN Documented =>
          /\ net.last # NoCall =>
                /\ net.last.ok
                /\ Len(net.last.ret) = 3
                /\ \A i \in 1..3 :
                      net.last.ret[i].shape = <<BatchSize, net.num_classes>>
          /\ net.st = "running" /\ net.line <= 333 =>
                net.l.x.shape = <<BatchSize, expected[net.line][1],
                                  expected[net.line][2], expected[net.line][2]>>
          /\ net.st = "running" /\ net.line > 333 =>
                net.l.x.shape = <<BatchSize, 1024>>
          /\ net.st = "running" /\ net.line > 323 =>
                net.l.aux0.shape = <<BatchSize, 512, 14, 14>>
          /\ net.st = "running" /\ net.line > 327 =>
                net.l.aux1.shape = <<BatchSize, 528, 14, 14>>

\* a call on a documented input of more than one image, for more than one class,
\* has returned
C1_Witness ==
    /\ Documented
    /\ BatchSize > 1
    /\ net.num_classes > 1
    /\ net.last.ok
    /\ net.st = "idle"

\* the block whose output is the last block output a value went through
RECURSIVE TapOf(_)
TapOf(trace) ==
    IF trace = <<>> THEN "none"
    ELSE IF trace[Len(trace)].op = "forward" THEN trace[Len(trace)].mod
    ELSE TapOf(SubSeq(trace, 1, Len(trace) - 1))

\* the trace up to and including the output of block `mod`
RECURSIVE TraceUpTo(_, _)
TraceUpTo(trace, mod) ==
    IF trace = <<>> THEN <<>>
    ELSE IF trace[Len(trace)] = Op(mod, "forward", 0, 0) THEN trace
    ELSE TraceUpTo(SubSeq(trace, 1, Len(trace) - 1), mod)

\* the trace without the layers of module `mod` at its end
RECURSIVE WithoutHead(_, _)
WithoutHead(trace, mod) ==
    IF trace = <<>> THEN <<>>
    ELSE IF trace[Len(trace)].mod \in {mod, "F"}
         THEN WithoutHead(SubSeq(trace, 1, Len(trace) - 1), mod)
         ELSE trace

IsPrefix(a, b) == Len(a) <= Len(b) /\ SubSeq(b, 1, Len(a)) = a

\* C5: forward returns (aux_classifier1 of the activation inception4a produced,
\* aux_classifier2 of the activation inception4d produced, the main head of the
\* activation after inception5b), in this order; from its capture on, each tap
\* is the value its block produced, held in storage that the main path's x does
\* not share, whatever statements have run since.
C5_TapsAndOrder ==
    /\ net.st = "running" /\ net.line > 323 =>
          /\ net.l.aux0.ok
          /\ net.l.aux0.trace # <<>>
          /\ net.l.aux0.trace[Len(net.l.aux0.trace)] = Op("inception4a", "forward", 0, 0)
          /\ IsPrefix(net.l.aux0.trace, net.l.x.trace)
          /\ net.l.aux0.buf # net.l.x.buf
    /\ net.st = "running" /\ net.line > 327 =>
          /\ net.l.aux1.ok
          /\ net.l.aux1.trace # <<>>
          /\ net.l.aux1.trace[Len(net.l.aux1.trace)] = Op("inception4d", "forward", 0, 0)
          /\ IsPrefix(net.l.aux1.trace, net.l.x.trace)
          /\ net.l.aux1.buf # net.l.x.buf
          /\ net.l.aux1.buf # net.l.aux0.buf
    /\ net.last.ok =>
          LET ret == net.last.ret
          IN /\ Len(ret) = 3
             /\ ret[1].trace[Len(ret[1].trace)] = Op("aux_classifier1", "fc5", 0, 0)
             /\ ret[2].trace[Len(ret[2].trace)] = Op("aux_classifier2", "fc5", 0, 0)
             /\ ret[3].trace[Len(ret[3].trace)] = Op("net", "linear5", 0, 0)
             /\ TapOf(ret[1].trace) = "inception4a"
             /\ TapOf(ret[2].trace) = "inception4d"
             /\ TapOf(ret[3].trace) = "inception5b"
             /\ WithoutHead(ret[1].trace, "aux_classifier1")
                   = TraceUpTo(ret[3].trace, "inception4a")
             /\ WithoutHead(ret[2].trace, "aux_classifier2")
                   = TraceUpTo(ret[3].trace, "inception4d")

\* the auxiliary heads are about to run, after the main head has finished
C5_Witness ==
    /\ net.st = "running"
    /\ net.line = 337
    /\ net.l.scores2.ok
    /\ net.l.aux0.ok
    /\ net.l.aux1.ok

DropoutOps == {"dropout4", "dropout5"}

HasDropout(t) == \E i \in 1..Len(t.trace) : t.trace[i].op \in DropoutOps

\* C9: a forward call in inference mode returns what the previous inference-mode
\* call on the same input returned, for all three heads: in inference mode no
\* dropout stage acts on a value, while in training mode each head's value went
\* through its dropout (p = 0.7 in the auxiliary heads, p = 0.4 in the main one).
C9_InferenceRepeatable ==
    /\ (/\ net.st = "running"
        /\ net.line = ReturnLine
        /\ ~net.training
        /\ net.last.ok
        /\ ~net.last.training) => Fwd339(net.l) = net.last.ret
    /\ net.last.ok /\ ~net.last.training =>
          \A i \in 1..3 : ~HasDropout(net.last.ret[i])
    /\ net.last.ok /\ net.last.training =>
          /\ \E m \in DropoutMasks :
                net.last.ret[1].trace[Len(net.last.ret[1].trace) - 1]
                   = Op("aux_classifier1", "dropout4", 7, m)
          /\ \E m \in DropoutMasks :
                net.last.ret[2].trace[Len(net.last.ret[2].trace) - 1]
                   = Op("aux_classifier2", "dropout4", 7, m)
          /\ \E m \in DropoutMasks :
                net.last.ret[3].trace[Len(net.last.ret[3].trace) - 1]
                   = Op("net", "dropout5", 4, m)

\* a second inference-mode call is about to return
C9_Witness ==
    /\ net.st = "running"
    /\ net.line = ReturnLine
    /\ ~net.training
    /\ net.last.ok
    /\ ~net.last.training

\* the batch size, channel count, height and width of the block's input
BlkN == blk.x.shape[1]

BlkC == blk.x.shape[2]

BlkH == blk.x.shape[3]

BlkW == blk.x.shape[4]

\* C2: for a tuple of positive entries and an input of shape (N, in_ch, H, W),
\* Inception_Block.forward returns a tensor of shape
\* (N, out1 + out2 + out3 + out4, H, W): each of the four branches keeps H and W,
\* so the concatenation does not fail.
C2_BlockShape ==
    blk.st = "called" /\ BlkC = blk.params[1] =>
        /\ blk.out.ok
        /\ blk.out.shape = <<BlkN, blk.params[2] + blk.params[4] + blk.params[6]
                                      + blk.params[7], BlkH, BlkW>>
        /\ \A i \in 1..4 :
              LET b == BranchOutputs("block", blk.params, blk.x)[i]
              IN b.ok /\ b.shape[1] = BlkN /\ b.shape[3] = BlkH /\ b.shape[4] = BlkW

\* a block has been called on an input wider than high, of more than one image
C2_Witness ==
    /\ blk.st = "called"
    /\ BlkC = blk.params[1]
    /\ BlkN > 1
    /\ BlkH = 1
    /\ BlkW > 1
    /\ blk.out.ok

\* C6: the output's channels are the four branches' in the order A, B, C, D:
\* the first out1 channels come from the 1x1 conv, the next out2 from the 3x3
\* conv, the next out3 from the 5x5 conv, the last out4 from the conv after the
\* max-pool; the batch and spatial axes stay where they are.
C6_ConcatOrder ==
    blk.st = "called" /\ blk.out.ok =>
        LET out1 == blk.params[2]
            out2 == blk.params[4]
            out3 == blk.params[6]
            out4 == blk.params[7]
        IN /\ SegSum(blk.out.segs) = out1 + out2 + out3 + out4
           /\ blk.out.shape[2] = out1 + out2 + out3 + out4
           /\ \A c \in 1..(out1 + out2 + out3 + out4) :
                 ChannelOwner(blk.out.segs, c) =
                    IF c <= out1 THEN "conv1"
                    ELSE IF c <= out1 + out2 THEN "conv2"
                    ELSE IF c <= out1 + out2 + out3 THEN "conv3"
                    ELSE "conv4"
           /\ blk.out.shape[1] = BlkN
           /\ blk.out.shape[3] = BlkH
           /\ blk.out.shape[4] = BlkW

\* a block whose 3x3 and 5x5 branches differ in width has been called
C6_Witness ==
    /\ blk.st = "called"
    /\ blk.out.ok
    /\ blk.params[4] # blk.params[6]
    /\ blk.params[2] > 1
    /\ BlkH # BlkW

\* C4: (as amended) in the table of the network, every block's
\* out1 + out2 + out3 + out4 is the channel count its consumer expects: the next
\* block's in_channels, 512 and 528 for the auxiliary heads after 4a and 4d, 1024
\* for the final linear layer; nothing checks this at construction: a block built
\* to consume another's output is built whatever its in_channels, and a count
\* that differs from the producer's is found by forward, as a channel mismatch.
C4_MismatchFoundInForward ==
    /\ OutChannels(inception_params.inception3a) = inception_params.inception3b[1]
    /\ OutChannels(inception_params.inception3b) = inception_params.inception4a[1]
    /\ OutChannels(inception_params.inception4a) = inception_params.inception4b[1]
    /\ OutChannels(inception_params.inception4a) = 512
    /\ OutChannels(inception_params.inception4b) = inception_params.inception4c[1]
    /\ OutChannels(inception_params.inception4c) = inception_params.inception4d[1]
    /\ OutChannels(inception_params.inception4d) = inception_params.inception4e[1]
    /\ OutChannels(inception_params.inception4d) = 528
    /\ OutChannels(inception_params.inception4e) = inception_params.inception5a[1]
    /\ OutChannels(inception_params.inception5a) = inception_params.inception5b[1]
    /\ OutChannels(inception_params.inception5b) = 1024
    /\ Aux1Channels = 512 /\ Aux2Channels = 528 /\ MainFeatures = 1024
    /\ blk.st = "fed" =>
          /\ blk.next_out.ok <=> (blk.params[2] + blk.params[4] + blk.params[6]
                                    + blk.params[7] = blk.next_in)
          /\ ~blk.next_out.ok => blk.next_out.err = "channels"

\* a consumer built for the wrong channel count was built, called, and raised
C4_Witness ==
    /\ blk.st = "fed"
    /\ blk.params[2] + blk.params[4] + blk.params[6] + blk.params[7] # blk.next_in
    /\ blk.next_out.err = "channels"

\* C4 as claimed: a consumer is never built for a channel count other than
\* its producer's out1 + out2 + out3 + out4 (the constructor rejects it).
C4_ValidatedAtConstruction ==
    blk.st \in {"chained", "fed"} =>
        blk.params[2] + blk.params[4] + blk.params[6] + blk.params[7] = blk.next_in

\* the size of the feature map after the classifier's average pool
AuxPooled == Aux_avgpool1("aux", aux.x)

\* C7: on an input of shape (N, in_ch, H, W) with H and W in 14..16, the sizes the
\* average pool takes to 4x4, the classifier returns scores of shape
\* (N, num_classes), and its first linear layer is fed rows of 128*4*4 = 2048.
C7_AuxShape ==
    (/\ aux.st = "called"
     /\ aux.x.shape[2] = aux.in_ch
     /\ aux.x.shape[3] \in 14..16
     /\ aux.x.shape[4] \in 14..16) =>
        /\ aux.out.ok
        /\ aux.out.shape = <<aux.x.shape[1], aux.num_classes>>
        /\ AuxPooled.shape = <<aux.x.shape[1], aux.in_ch, 4, 4>>
        /\ AuxFeatures("aux", aux.in_ch, aux.x).shape = <<aux.x.shape[1], 128, 4, 4>>
        /\ AuxFlat("aux", aux.in_ch, aux.x).shape = <<aux.x.shape[1], 2048>>

\* the classifier for 512 channels has been called on a 14x14 map, as after 4a
C7_Witness ==
    /\ aux.st = "called"
    /\ aux.in_ch = 512
    /\ aux.x.shape = <<MaxBatch, 512, 14, 14>>
    /\ aux.num_classes = MaxClasses
    /\ aux.out.ok

\* C3: the classifier raises for every input whose feature map is not 4x4
\* after the average pool.
C3_RaisesUnless4x4 ==
    (/\ aux.st = "called"
     /\ aux.x.shape[2] = aux.in_ch
     /\ ~(AuxPooled.ok /\ AuxPooled.shape[3] = 4 /\ AuxPooled.shape[4] = 4)) =>
        ~aux.out.ok

\* C8: the loss cell computes one cross-entropy per score tensor, all against the
\* same labels: aux_loss1 from the first output, aux_loss2 from the second,
\* main_loss from the third; and 10 * total_loss =
\* 10 * main_loss + 3 * aux_loss1 + 3 * aux_loss2.
C8_WeightedLoss ==
    net.loss.done =>
        /\ net.last.ok
        /\ net.loss.aux_loss1.scores = net.last.ret[1]
        /\ net.loss.aux_loss2.scores = net.last.ret[2]
        /\ net.loss.main_loss.scores = net.last.ret[3]
        /\ net.loss.aux_loss1.scores.trace[Len(net.loss.aux_loss1.scores.trace)].mod
              = "aux_classifier1"
        /\ net.loss.aux_loss2.scores.trace[Len(net.loss.aux_loss2.scores.trace)].mod
              = "aux_classifier2"
        /\ net.loss.main_loss.scores.trace[Len(net.loss.main_loss.scores.trace)].op
              = "linear5"
        /\ net.loss.aux_loss1.y = net.loss.y
        /\ net.loss.aux_loss2.y = net.loss.y
        /\ net.loss.main_loss.y = net.loss.y
        /\ net.loss.total10 = 10 * net.loss.main_loss.value
                                + 3 * net.loss.aux_loss1.value
                                + 3 * net.loss.aux_loss2.value

\* a loss was computed in which only the second auxiliary loss is not zero
C8_Witness ==
    /\ net.loss.done
    /\ net.loss.main_loss.value = 0
    /\ net.loss.aux_loss1.value = 0
    /\ net.loss.aux_loss2.value = 1
    /\ net.loss.total10 = 3

\* the height and width of the image given to the network
ImgH == net.input.shape[3]

ImgW == net.input.shape[4]

\* ceil(s / 2)
Half(s) == (s + 1) \div 2

\* the locals of forward on the network's input when it reaches line `stop`
\* (a line before the first dropout)
RECURSIVE LocalsAt(_, _, _)
LocalsAt(line, stop, l) ==
    IF l.err # "" \/ line >= stop THEN l
    ELSE LocalsAt(NextLine(line), stop, Statement(line, l, net.num_classes, FALSE, 0))

\* C10: on a 3-channel image of size H x W forward returns if and only if both H
\* and W lie in 209..224; otherwise it raises, from a linear layer fed rows of the
\* wrong width or from a pooling window larger than its input.  Each of the five
\* stride-2 stages takes a side s to ceil(s / 2): four of them lie before blocks
\* 4a-4e, all five before blocks 5a-5b.
C10_AcceptedSizes ==
    net.st = "evaluated" =>
        /\ net.last.ok <=> (ImgH \in 209..224 /\ ImgW \in 209..224)
        /\ LET at4 == LocalsAt(FirstLine, 322, Locals(net.input))
               at5 == LocalsAt(FirstLine, 330, Locals(net.input))
           IN /\ at4.err = ""
              /\ at4.x.shape[3] = Half(Half(Half(Half(ImgH))))
              /\ at4.x.shape[4] = Half(Half(Half(Half(ImgW))))
              /\ at5.err = ""
              /\ at5.x.shape[3] = Half(Half(Half(Half(Half(ImgH)))))
              /\ at5.x.shape[4] = Half(Half(Half(Half(Half(ImgW)))))
              /\ net.last.ok => at4.x.shape[3] = 14 /\ at4.x.shape[4] = 14
        /\ ~net.last.ok => net.last.err \in {"matmul", "size"}
        /\ net.last.ok =>
              \A i \in 1..3 : net.last.ret[i].shape = <<BatchSize, net.num_classes>>

\* an image smaller than documented, and not square, was accepted
C10_Witness ==
    /\ net.st = "evaluated"
    /\ net.last.ok
    /\ ImgH = 209
    /\ ImgW = 223

====
